---- MODULE Spec2Model ----
(***************************************************************************)
(* A model of timeclock: the stamp store and the clock entry point         *)
(* (timeclock/stamp.py, timeclock/clock.py) and the day aggregator and     *)
(* week table of the time sheet (timeclock/timesheet.py).                  *)
(*                                                                         *)
(* Text is a sequence of one-character strings.  Python's None is the      *)
(* empty sequence and a present value x is <<x>>.  A time is an integer    *)
(* number of ticks, TicksPerSecond ticks to the second, so that the        *)
(* sub-second part of arrow.now() is visible.                              *)
(***************************************************************************)
EXTENDS Integers, Sequences, FiniteSets, TLC

VARIABLES
    store,      \* the stamp directory: n -> the content of the file n.stamp
    args,       \* clock: the parsed command line of the last invocation
    rc,         \* clock: the exit code of the last invocation
    stamps,     \* collect: the stamps taken from the input so far
    day,        \* collect: the open WorkDay, or None
    paused,     \* collect: the time of the pending PAUSE, or None
    last_stamp, \* collect: the previous stamp, or None
    work_days,  \* collect: the WorkDays yielded so far
    now,        \* collect / time_table: the report's notion of "now"
    pc,         \* which part of a report run is executing
    call,       \* the last call of a pure function: its inputs and its result
    table       \* time_table: the rows printed so far and the week's running total

vars == <<store, args, rc, stamps, day, paused, last_stamp, work_days, now, pc, call,
          table>>

clockVars == <<store, args, rc>>
reportVars == <<stamps, day, paused, last_stamp, work_days, now, pc, table>>

(***************************************************************************)
(* Bounds of the model.                                                    *)
(***************************************************************************)
TicksPerSecond == 2   \* the resolution of a time
MaxSecond == 10       \* clock: the last second --at can name
MaxStamps == 3        \* collect: the length of an arbitrary input
MaxTagged == 3        \* collect: the length of an input with details
MaxTime == 2          \* collect: the last time of a stamp of an arbitrary input
MaxRun == 6           \* collect: the length of a regular run IN (PAUSE RESUME)* OUT
MaxGap == 2           \* collect: the longest time between two stamps of a regular run
MaxDays == 3          \* time_table: the number of WorkDays of a sheet
MaxWeek == 1          \* time_table: the last week a WorkDay of a sheet begins

None == <<>>
Some(x) == <<x>>

(***************************************************************************)
(* Text                                                                    *)
(***************************************************************************)
Whitespace == {" ", "\n"}
LowerLetters == <<"a", "e", "g", "i", "m", "n", "o", "p", "r", "s", "t", "u">>
UpperLetters == <<"A", "E", "G", "I", "M", "N", "O", "P", "R", "S", "T", "U">>
Letters == {LowerLetters[i] : i \in DOMAIN LowerLetters}
             \cup {UpperLetters[i] : i \in DOMAIN UpperLetters}
DigitChars == <<"0", "1", "2", "3", "4", "5", "6", "7", "8", "9">>
IsDigit(c) == \E i \in DOMAIN DigitChars : DigitChars[i] = c

\* str.upper() / str.lower() on one character
upper(c) ==
    IF \E i \in DOMAIN LowerLetters : LowerLetters[i] = c
    THEN UpperLetters[CHOOSE i \in DOMAIN LowerLetters : LowerLetters[i] = c]
    ELSE c
lower(c) ==
    IF \E i \in DOMAIN UpperLetters : UpperLetters[i] = c
    THEN LowerLetters[CHOOSE i \in DOMAIN UpperLetters : UpperLetters[i] = c]
    ELSE c

\* str.strip(): drop leading and trailing whitespace
strip(s) ==
    LET keep == {i \in DOMAIN s : s[i] \notin Whitespace}
    IN  IF keep = {} THEN <<>>
        ELSE LET lo == CHOOSE i \in keep : \A j \in keep : i <= j
                 hi == CHOOSE i \in keep : \A j \in keep : j <= i
             IN  SubSeq(s, lo, hi)

\* the code point order Python compares the characters of two strings by
ord(c) ==
    IF c = "\n" THEN 10
    ELSE IF c = " " THEN 32
    ELSE IF c = "-" THEN 45
    ELSE IF c = "." THEN 46
    ELSE IF IsDigit(c) THEN 47 + (CHOOSE i \in DOMAIN DigitChars : DigitChars[i] = c)
    ELSE IF c = ":" THEN 58
    ELSE IF \E i \in DOMAIN UpperLetters : UpperLetters[i] = c
         THEN 64 + (CHOOSE i \in DOMAIN UpperLetters : UpperLetters[i] = c)
    ELSE 96 + (CHOOSE i \in DOMAIN LowerLetters : LowerLetters[i] = c)

\* a < b for two strings (lexicographic, by code point)
str_less(a, b) ==
    \E k \in 1..(Len(b)) :
        /\ k <= Len(a) + 1
        /\ \A i \in 1..(k - 1) : a[i] = b[i]
        /\ (k = Len(a) + 1 \/ ord(a[k]) < ord(b[k]))

\* '{}'.format(n) for an integer n
RECURSIVE nat_str(_)
nat_str(n) == IF n < 10 THEN <<DigitChars[n + 1]>>
              ELSE nat_str(n \div 10) \o <<DigitChars[(n % 10) + 1]>>
int_str(n) == IF n < 0 THEN <<"-">> \o nat_str(-n) ELSE nat_str(n)

\* int(s) for a string of decimal digits
RECURSIVE int_of(_)
int_of(s) ==
    IF s = <<>> THEN 0
    ELSE 10 * int_of(SubSeq(s, 1, Len(s) - 1))
         + ((CHOOSE i \in DOMAIN DigitChars : DigitChars[i] = s[Len(s)]) - 1)

(***************************************************************************)
(* Transition (stamp.py)                                                   *)
(***************************************************************************)
Transition == {"IN", "OUT", "PAUSE", "RESUME", "TAG"}
NoTransition == "None"

\* the enum member's name, as text
Transition_name(t) ==
    CASE t = "IN" -> <<"I", "N">>
      [] t = "OUT" -> <<"O", "U", "T">>
      [] t = "PAUSE" -> <<"P", "A", "U", "S", "E">>
      [] t = "RESUME" -> <<"R", "E", "S", "U", "M", "E">>
      [] t = "TAG" -> <<"T", "A", "G">>

\* Transition.__str__: self.name.lower()
Transition_str(t) == [i \in DOMAIN Transition_name(t) |-> lower(Transition_name(t)[i])]

\* Transition.from_str: cls[s.upper()]; a KeyError when no member has the name
Transition_from_str(s) ==
    LET up == [i \in DOMAIN s |-> upper(s[i])]
    IN  IF \E t \in Transition : Transition_name(t) = up
        THEN [raised |-> "", value |-> CHOOSE t \in Transition : Transition_name(t) = up]
        ELSE [raised |-> "KeyError", value |-> NoTransition]

\* Transition.may_follow mutated: RESUME is let through after IN as well
may_follow_resume_after_in(self, other) ==
    IF self = "IN" THEN other \in {"OUT", NoTransition}
    ELSE IF self \in {"OUT", "PAUSE"} THEN other \in {"IN", "RESUME", "TAG"}
    ELSE IF self = "RESUME" THEN other \in {"PAUSE", "IN"}
    ELSE IF self = "TAG" THEN other \notin {"OUT", NoTransition}
    ELSE FALSE

\* Transition.may_follow(self, other)
Transition_may_follow(self, other) ==
    IF self = "IN" THEN other \in {"OUT", NoTransition}
    ELSE IF self \in {"OUT", "PAUSE"} THEN other \in {"IN", "RESUME", "TAG"}
    ELSE IF self = "RESUME" THEN other \in {"PAUSE"}
    ELSE IF self = "TAG" THEN other \notin {"OUT", NoTransition}
    ELSE FALSE

(***************************************************************************)
(* Stamp (stamp.py)                                                        *)
(***************************************************************************)
\* Stamp.__init__: the details are stripped
Stamp(transition, time, details) ==
    [transition |-> transition, time |-> time, details |-> strip(details)]

\* Arrow.int_timestamp: int() of the float timestamp truncates toward zero
int_timestamp(time) ==
    IF time >= 0 THEN time \div TicksPerSecond ELSE -((-time) \div TicksPerSecond)

\* Arrow.fromtimestamp(n) for whole seconds n
fromtimestamp(n) == n * TicksPerSecond

\* Stamp.may_follow(self, other), other a Stamp or None
Stamp_may_follow(self, other) ==
    IF other = None THEN Transition_may_follow(self.transition, NoTransition)
    ELSE /\ Transition_may_follow(self.transition, other[1].transition)
         /\ self.time > other[1].time

StampSuffix == <<".", "s", "t", "a", "m", "p">>

\* '{}.stamp'.format(n): the name of the file a directory holds under n
file_name(n) == int_str(n) \o StampSuffix

\* FILE_NAME_RE = ^(\d+)\.stamp$ matched against the base name; group 1 or None
\* ($ also matches before one trailing newline)
FILE_NAME_RE_match(name) ==
    LET n == IF name # <<>> /\ name[Len(name)] = "\n" THEN Len(name) - 1 ELSE Len(name)
        d == n - Len(StampSuffix)
    IN  IF /\ d >= 1
           /\ SubSeq(name, d + 1, n) = StampSuffix
           /\ \A i \in 1..d : IsDigit(name[i])
        THEN Some(SubSeq(name, 1, d))
        ELSE None

\* the first index >= i of s that holds no whitespace (Len(s) + 1 when none)
skip_space(s, i) ==
    LET stop == {j \in i..Len(s) : s[j] \notin Whitespace}
    IN  IF stop = {} THEN Len(s) + 1 ELSE CHOOSE j \in stop : \A k \in stop : j <= k

\* the first index >= i of s that holds no letter
skip_letters(s, i) ==
    LET stop == {j \in i..Len(s) : s[j] \notin Letters}
    IN  IF stop = {} THEN Len(s) + 1 ELSE CHOOSE j \in stop : \A k \in stop : j <= k

\* STAMP_FILE_RE = ^\s*([A-Za-z]+)\s*:\s*(.*?)\s*$ matched against the whole
\* content: <<group 1, group 2>> or None.  "." matches no newline.
STAMP_FILE_RE_match(text) ==
    LET i1 == skip_space(text, 1)
        i2 == skip_letters(text, i1)
        i3 == skip_space(text, i2)
        i4 == skip_space(text, i3 + 1)
        q  == Len(strip(text)) + i1 - 1   \* the last index that holds no whitespace
        g2 == IF q < i4 THEN <<>> ELSE SubSeq(text, i4, q)
    IN  IF /\ i2 > i1
           /\ i3 <= Len(text)
           /\ text[i3] = ":"
           /\ \A k \in DOMAIN g2 : g2[k] # "\n"
        THEN Some(<<SubSeq(text, i1, i2 - 1), g2>>)
        ELSE None

\* Stamp.write(self, directory): the directory after the write
Stamp_write(self, directory) ==
    LET file == int_timestamp(self.time)
        content == Transition_str(self.transition) \o <<":">> \o self.details \o <<"\n">>
    IN  [n \in DOMAIN directory \cup {file} |->
            IF n = file THEN content ELSE directory[n]]

\* Stamp.load(file_name(n)) in a directory: the Stamp, or the exception raised
Stamp_load(directory, n) ==
    LET name_part == FILE_NAME_RE_match(file_name(n))
        info == STAMP_FILE_RE_match(directory[n])
        tr == Transition_from_str(info[1][1])
    IN  IF name_part = None THEN [raised |-> "ValueError", value |-> None]
        ELSE IF info = None THEN [raised |-> "ValueError", value |-> None]
        ELSE IF tr.raised # "" THEN [raised |-> tr.raised, value |-> None]
        ELSE [raised |-> "",
              value |-> Some(Stamp(tr.value, fromtimestamp(int_of(name_part[1])),
                                   info[1][2]))]

\* Stamp.is_valid_file_name
is_valid_file_name(name) == FILE_NAME_RE_match(name) # None

\* iter_stamps(directory): the stamp files, each given by its n
iter_stamps(directory) == {n \in DOMAIN directory : is_valid_file_name(file_name(n))}

\* max() of a non-empty set of file names: the n of the greatest string
str_max(files) ==
    CHOOSE n \in files : \A m \in files : m = n \/ str_less(file_name(m), file_name(n))

\* most_recent(directory): a loaded Stamp, None, or the exception of the load
most_recent(directory) ==
    LET stamp_files == iter_stamps(directory)
    IN  IF stamp_files # {} THEN Stamp_load(directory, str_max(stamp_files))
        ELSE [raised |-> "", value |-> None]

\* remove_at(directory, time): the directory after the removal
remove_at(directory, time) ==
    [n \in DOMAIN directory \ {int_timestamp(time)} |-> directory[n]]

(***************************************************************************)
(* The clock entry point (clock.py)                                        *)
(***************************************************************************)
\* the times --at (or arrow.now()) can give, in ticks: the seconds from 9 on,
\* whose file names pass from one digit to two
ClockSeconds == 9..MaxSecond
ClockTimes == {t \in 0..((MaxSecond + 1) * TicksPerSecond - 1) :
                  t \div TicksPerSecond \in ClockSeconds}

\* the details argument: absent, or a text
ClockDetails == {None, Some(<<"a">>)}

\* The command lines.  An argument the chosen branch of main never reads is
\* left at one value, and details are given with --replace only.
ClockArgs ==
    {a \in [transition : Transition, details : ClockDetails, force : BOOLEAN,
            at : ClockTimes, replace : BOOLEAN, remove : BOOLEAN] :
        /\ (a.details # None) => a.replace
        /\ a.replace => (~a.remove /\ ~a.force /\ a.at = 9 * TicksPerSecond)
        /\ a.remove => (~a.force /\ a.at = 9 * TicksPerSecond
                        /\ a.details = None /\ a.transition = "IN")}

\* main mutated: --force is ignored and the gate always asked
main_force_ignored(a, directory, loaded) ==
    LET last == loaded.value
    IN  IF loaded.raised # "" THEN [dir |-> directory, rc |-> 1]
        ELSE IF a.replace THEN
            IF last = None THEN [dir |-> directory, rc |-> 1]
            ELSE LET details == IF a.details # None THEN a.details[1] ELSE last[1].details
                 IN  [dir |-> Stamp_write(Stamp(a.transition, last[1].time, details), directory),
                      rc |-> 0]
        ELSE IF a.remove THEN
            IF last = None THEN [dir |-> directory, rc |-> 1]
            ELSE [dir |-> remove_at(directory, last[1].time), rc |-> 0]
        ELSE
            LET details == IF a.details # None THEN a.details[1] ELSE <<>>
                this == Stamp(a.transition, a.at, details)
            IN  IF Stamp_may_follow(this, last)
                THEN [dir |-> Stamp_write(this, directory), rc |-> 0]
                ELSE [dir |-> directory, rc |-> 1]

\* main() from "if args.replace" on, given what most_recent(stamp_dir) returned:
\* the directory and the exit code the run leaves behind (an uncaught
\* exception ends the interpreter with exit code 1)
main_body(a, directory, loaded) ==
    LET last == loaded.value
    IN  IF loaded.raised # "" THEN [dir |-> directory, rc |-> 1]
        ELSE IF a.replace THEN
            IF last = None THEN [dir |-> directory, rc |-> 1]
            ELSE LET details == IF a.details # None THEN a.details[1] ELSE last[1].details
                 IN  [dir |-> Stamp_write(Stamp(a.transition, last[1].time, details), directory),
                      rc |-> 0]
        ELSE IF a.remove THEN
            IF last = None THEN [dir |-> directory, rc |-> 1]
            ELSE [dir |-> remove_at(directory, last[1].time), rc |-> 0]
        ELSE
            LET details == IF a.details # None THEN a.details[1] ELSE <<>>
                this == Stamp(a.transition, a.at, details)
            IN  IF a.force \/ Stamp_may_follow(this, last)
                THEN [dir |-> Stamp_write(this, directory), rc |-> 0]
                ELSE [dir |-> directory, rc |-> 1]

\* one invocation of clock: main(), its command line being any of A
main_with(A) ==
    \E loaded \in {most_recent(store)} :
        \E a \in A :
            \E run \in {main_body(a, store, loaded)} :
                /\ args' = Some(a)
                /\ store' = run.dir
                /\ rc' = run.rc
                /\ UNCHANGED <<reportVars, call>>

main == main_with(ClockArgs)

\* the command lines without --force
UnforcedArgs == {a \in ClockArgs : ~a.force}

main_unforced == main_with(UnforcedArgs)

(***************************************************************************)
(* WorkDay and collect (timesheet.py)                                      *)
(***************************************************************************)
SecondsPerDay == 86400

\* Arrow.floor('day'), clocks taken to show UTC
floor_day(time) == time - (time % (SecondsPerDay * TicksPerSecond))

\* WorkDay.__init__
WorkDay ==
    [date |-> None, begin |-> None, end |-> None, pause_time |-> 0, tags |-> <<>>,
     invalid_transitions |-> FALSE, state |-> "None"]

\* WorkDay.consistent
consistent(d) == d.begin # None /\ ~d.invalid_transitions

\* WorkDay.complete
complete(d) == consistent(d) /\ d.end # None /\ d.state = "ABSENT"

\* WorkDay.work_time(now); timedelta() is 0
work_time(d, t) ==
    IF ~consistent(d) THEN 0
    ELSE LET end == IF d.end # None THEN d.end[1] ELSE t
         IN  (end - d.begin[1]) - d.pause_time

\* a cell of a table row; value is 0 where the cell shows a fixed text
cell(kind, value) == [kind |-> kind, value |-> value]

\* WorkDay.columns mutated: the worked cell of an inconsistent day shows its
\* work_time, which is zero
columns_zero(d, t) ==
    IF d.end = None /\ consistent(d) /\ d.state \notin {"PAUSING", "WORKING"}
    THEN [raised |-> "AssertionError", cols |-> <<>>]
    ELSE [raised |-> "",
          cols |-> <<cell("date", d.date[1]),
                     IF d.begin # None THEN cell("time", d.begin[1])
                     ELSE cell("placeholder", 0),
                     IF d.end # None THEN cell("time", d.end[1])
                     ELSE IF ~consistent(d) THEN cell("placeholder", 0)
                     ELSE IF d.state = "PAUSING" THEN cell("paused-state", 0)
                     ELSE cell("working-state", 0),
                     cell("hours", d.pause_time),
                     cell("hours", work_time(d, t)),
                     cell("tags", d.tags)>>]

\* WorkDay.columns(now, table): the cells date, begin, end, pause, worked and
\* tags; a cell keeps the value that its format call renders
columns(d, t) ==
    IF d.end = None /\ consistent(d) /\ d.state \notin {"PAUSING", "WORKING"}
    THEN [raised |-> "AssertionError", cols |-> <<>>]
    ELSE [raised |-> "",
          cols |-> <<cell("date", d.date[1]),
                     IF d.begin # None THEN cell("time", d.begin[1])
                     ELSE cell("placeholder", 0),
                     IF d.end # None THEN cell("time", d.end[1])
                     ELSE IF ~consistent(d) THEN cell("placeholder", 0)
                     ELSE IF d.state = "PAUSING" THEN cell("paused-state", 0)
                     ELSE cell("working-state", 0),
                     cell("hours", d.pause_time),
                     IF consistent(d) THEN cell("hours", work_time(d, t))
                     ELSE cell("placeholder", 0),
                     cell("tags", d.tags)>>]

\* collect's loop body mutated: a RESUME overwrites pause_time with the last
\* pause instead of adding to it
collect_stamp_lossy(c, stamp) ==
    LET fresh == c.day = None \/ stamp.transition = "IN"
        closed == IF fresh /\ c.day # None
                  THEN Append(c.yielded, [c.day[1] EXCEPT !.invalid_transitions = TRUE])
                  ELSE c.yielded
        d0 == IF fresh THEN WorkDay ELSE c.day[1]
        d1 == IF stamp.transition # "IN" /\ ~Stamp_may_follow(stamp, c.last_stamp)
              THEN [d0 EXCEPT !.invalid_transitions = TRUE] ELSE d0
        d2 == IF d1.date = None THEN [d1 EXCEPT !.date = Some(floor_day(stamp.time))] ELSE d1
        d3 == IF stamp.transition = "IN"
                  THEN [d2 EXCEPT !.begin = Some(stamp.time), !.state = "WORKING"]
              ELSE IF stamp.transition = "OUT"
                  THEN [d2 EXCEPT !.end = Some(stamp.time), !.state = "ABSENT"]
              ELSE IF stamp.transition = "PAUSE"
                  THEN [d2 EXCEPT !.state = "PAUSING"]
              ELSE IF stamp.transition = "RESUME"
                  THEN [d2 EXCEPT !.pause_time = IF c.paused # None
                                                 THEN stamp.time - c.paused[1] ELSE @,
                                  !.state = "WORKING"]
              ELSE d2
        d4 == IF stamp.details # <<>> THEN [d3 EXCEPT !.tags = Append(@, stamp.details)] ELSE d3
    IN  [day |-> IF stamp.transition = "OUT" THEN None ELSE Some(d4),
         paused |-> IF stamp.transition = "PAUSE" THEN Some(stamp.time) ELSE None,
         last_stamp |-> Some(stamp),
         yielded |-> IF stamp.transition = "OUT" THEN Append(closed, d4) ELSE closed]

\* collect's loop body mutated: a day that a new IN closes is yielded as it is
collect_stamp_quiet_close(c, stamp) ==
    LET fresh == c.day = None \/ stamp.transition = "IN"
        closed == IF fresh /\ c.day # None THEN Append(c.yielded, c.day[1]) ELSE c.yielded
        d0 == IF fresh THEN WorkDay ELSE c.day[1]
        d1 == IF stamp.transition # "IN" /\ ~Stamp_may_follow(stamp, c.last_stamp)
              THEN [d0 EXCEPT !.invalid_transitions = TRUE] ELSE d0
        d2 == IF d1.date = None THEN [d1 EXCEPT !.date = Some(floor_day(stamp.time))] ELSE d1
        d3 == IF stamp.transition = "IN"
                  THEN [d2 EXCEPT !.begin = Some(stamp.time), !.state = "WORKING"]
              ELSE IF stamp.transition = "OUT"
                  THEN [d2 EXCEPT !.end = Some(stamp.time), !.state = "ABSENT"]
              ELSE IF stamp.transition = "PAUSE"
                  THEN [d2 EXCEPT !.state = "PAUSING"]
              ELSE IF stamp.transition = "RESUME"
                  THEN [d2 EXCEPT !.pause_time = IF c.paused # None
                                                 THEN @ + (stamp.time - c.paused[1]) ELSE @,
                                  !.state = "WORKING"]
              ELSE d2
        d4 == IF stamp.details # <<>> THEN [d3 EXCEPT !.tags = Append(@, stamp.details)] ELSE d3
    IN  [day |-> IF stamp.transition = "OUT" THEN None ELSE Some(d4),
         paused |-> IF stamp.transition = "PAUSE" THEN Some(stamp.time) ELSE None,
         last_stamp |-> Some(stamp),
         yielded |-> IF stamp.transition = "OUT" THEN Append(closed, d4) ELSE closed]

\* collect's loop body mutated: the day stays open after its OUT is yielded
collect_stamp_out_stays(c, stamp) ==
    LET fresh == c.day = None \/ stamp.transition = "IN"
        closed == IF fresh /\ c.day # None
                  THEN Append(c.yielded, [c.day[1] EXCEPT !.invalid_transitions = TRUE])
                  ELSE c.yielded
        d0 == IF fresh THEN WorkDay ELSE c.day[1]
        d1 == IF stamp.transition # "IN" /\ ~Stamp_may_follow(stamp, c.last_stamp)
              THEN [d0 EXCEPT !.invalid_transitions = TRUE] ELSE d0
        d2 == IF d1.date = None THEN [d1 EXCEPT !.date = Some(floor_day(stamp.time))] ELSE d1
        d3 == IF stamp.transition = "IN"
                  THEN [d2 EXCEPT !.begin = Some(stamp.time), !.state = "WORKING"]
              ELSE IF stamp.transition = "OUT"
                  THEN [d2 EXCEPT !.end = Some(stamp.time), !.state = "ABSENT"]
              ELSE IF stamp.transition = "PAUSE"
                  THEN [d2 EXCEPT !.state = "PAUSING"]
              ELSE IF stamp.transition = "RESUME"
                  THEN [d2 EXCEPT !.pause_time = IF c.paused # None
                                                 THEN @ + (stamp.time - c.paused[1]) ELSE @,
                                  !.state = "WORKING"]
              ELSE d2
        d4 == IF stamp.details # <<>> THEN [d3 EXCEPT !.tags = Append(@, stamp.details)] ELSE d3
    IN  [day |-> Some(d4),
         paused |-> IF stamp.transition = "PAUSE" THEN Some(stamp.time) ELSE None,
         last_stamp |-> Some(stamp),
         yielded |-> IF stamp.transition = "OUT" THEN Append(closed, d4) ELSE closed]

\* collect's loop body mutated: the details of a stamp replace the tags of its day
collect_stamp_tags_reset(c, stamp) ==
    LET fresh == c.day = None \/ stamp.transition = "IN"
        closed == IF fresh /\ c.day # None
                  THEN Append(c.yielded, [c.day[1] EXCEPT !.invalid_transitions = TRUE])
                  ELSE c.yielded
        d0 == IF fresh THEN WorkDay ELSE c.day[1]
        d1 == IF stamp.transition # "IN" /\ ~Stamp_may_follow(stamp, c.last_stamp)
              THEN [d0 EXCEPT !.invalid_transitions = TRUE] ELSE d0
        d2 == IF d1.date = None THEN [d1 EXCEPT !.date = Some(floor_day(stamp.time))] ELSE d1
        d3 == IF stamp.transition = "IN"
                  THEN [d2 EXCEPT !.begin = Some(stamp.time), !.state = "WORKING"]
              ELSE IF stamp.transition = "OUT"
                  THEN [d2 EXCEPT !.end = Some(stamp.time), !.state = "ABSENT"]
              ELSE IF stamp.transition = "PAUSE"
                  THEN [d2 EXCEPT !.state = "PAUSING"]
              ELSE IF stamp.transition = "RESUME"
                  THEN [d2 EXCEPT !.pause_time = IF c.paused # None
                                                 THEN @ + (stamp.time - c.paused[1]) ELSE @,
                                  !.state = "WORKING"]
              ELSE d2
        d4 == IF stamp.details # <<>> THEN [d3 EXCEPT !.tags = <<stamp.details>>] ELSE d3
    IN  [day |-> IF stamp.transition = "OUT" THEN None ELSE Some(d4),
         paused |-> IF stamp.transition = "PAUSE" THEN Some(stamp.time) ELSE None,
         last_stamp |-> Some(stamp),
         yielded |-> IF stamp.transition = "OUT" THEN Append(closed, d4) ELSE closed]

\* The body of the for loop of collect for one stamp.  c holds the generator's
\* locals day, paused and last_stamp, and yielded, the days it has yielded.
collect_stamp(c, stamp) ==
    LET fresh == c.day = None \/ stamp.transition = "IN"
        closed == IF fresh /\ c.day # None
                  THEN Append(c.yielded, [c.day[1] EXCEPT !.invalid_transitions = TRUE])
                  ELSE c.yielded
        d0 == IF fresh THEN WorkDay ELSE c.day[1]
        d1 == IF stamp.transition # "IN" /\ ~Stamp_may_follow(stamp, c.last_stamp)
              THEN [d0 EXCEPT !.invalid_transitions = TRUE] ELSE d0
        d2 == IF d1.date = None THEN [d1 EXCEPT !.date = Some(floor_day(stamp.time))] ELSE d1
        d3 == IF stamp.transition = "IN"
                  THEN [d2 EXCEPT !.begin = Some(stamp.time), !.state = "WORKING"]
              ELSE IF stamp.transition = "OUT"
                  THEN [d2 EXCEPT !.end = Some(stamp.time), !.state = "ABSENT"]
              ELSE IF stamp.transition = "PAUSE"
                  THEN [d2 EXCEPT !.state = "PAUSING"]
              ELSE IF stamp.transition = "RESUME"
                  THEN [d2 EXCEPT !.pause_time = IF c.paused # None
                                                 THEN @ + (stamp.time - c.paused[1]) ELSE @,
                                  !.state = "WORKING"]
              ELSE d2
        d4 == IF stamp.details # <<>> THEN [d3 EXCEPT !.tags = Append(@, stamp.details)] ELSE d3
    IN  [day |-> IF stamp.transition = "OUT" THEN None ELSE Some(d4),
         paused |-> IF stamp.transition = "PAUSE" THEN Some(stamp.time) ELSE None,
         last_stamp |-> Some(stamp),
         yielded |-> IF stamp.transition = "OUT" THEN Append(closed, d4) ELSE closed]

\* collect after the loop mutated: the open day is closed at now
collect_rest_frozen(c, t) ==
    IF c.day = None THEN [raised |-> "", yielded |-> c.yielded]
    ELSE [raised |-> "",
          yielded |-> Append(c.yielded, [c.day[1] EXCEPT !.end = Some(t)])]

\* collect after the loop mutated: the pause that is still open is not counted
collect_rest_pause_dropped(c, t) ==
    IF c.day = None THEN [raised |-> "", yielded |-> c.yielded]
    ELSE IF c.day[1].end # None THEN [raised |-> "AssertionError", yielded |-> c.yielded]
    ELSE [raised |-> "", yielded |-> Append(c.yielded, c.day[1])]

\* collect after the loop; raised is "AssertionError" when the assert fails
collect_rest(c, t) ==
    IF c.day = None THEN [raised |-> "", yielded |-> c.yielded]
    ELSE IF c.day[1].end # None THEN [raised |-> "AssertionError", yielded |-> c.yielded]
    ELSE [raised |-> "",
          yielded |-> Append(c.yielded,
                             IF c.paused # None
                             THEN [c.day[1] EXCEPT !.pause_time = @ + (t - c.paused[1])]
                             ELSE c.day[1])]

\* the generator's locals before the first stamp
collect_start == [day |-> None, paused |-> None, last_stamp |-> None, yielded |-> <<>>]

\* the generator's locals after the stamps of ss, taken in order
RECURSIVE collect_loop(_)
collect_loop(ss) ==
    IF ss = <<>> THEN collect_start
    ELSE collect_stamp(collect_loop(SubSeq(ss, 1, Len(ss) - 1)), ss[Len(ss)])

\* list(collect(stamps, now))
collect(ss, t) == collect_rest(collect_loop(ss), t).yielded

(***************************************************************************)
(* The report: collect run stamp by stamp                                  *)
(***************************************************************************)
\* the stamps of an arbitrary input
CollectStamps ==
    [transition : Transition, time : 0..MaxTime, details : {<<>>}]

\* now = arrow.utcnow(): at, before or after the stamps of the input
CollectNow == 0..(MaxTime + 1)

collect_locals == [day |-> day, paused |-> paused, last_stamp |-> last_stamp,
                   yielded |-> work_days]

\* collect takes the next stamp from its input, here any stamp of S
collect_next(S) ==
    /\ pc \in {"start", "loop"}
    /\ \E stamp \in S :
        \E c \in {collect_stamp(collect_locals, stamp)} :
            /\ stamps' = Append(stamps, stamp)
            /\ day' = c.day
            /\ paused' = c.paused
            /\ last_stamp' = c.last_stamp
            /\ work_days' = c.yielded
    /\ pc' = "loop"
    /\ UNCHANGED <<now, clockVars, call, table>>

\* the input is exhausted: the rest of collect, now being any time of N
collect_rest_at(N) ==
    /\ pc \in {"start", "loop"}
    /\ \E t \in N :
        \E r \in {collect_rest(collect_locals, t)} :
            /\ now' = Some(t)
            /\ work_days' = r.yielded
            /\ pc' = IF r.raised = "" THEN "done" ELSE r.raised
    /\ UNCHANGED <<stamps, day, paused, last_stamp, clockVars, call, table>>

collect_done == collect_rest_at(CollectNow)

\* now for a regular run: up to one tick after the last time a run can reach
RegularNow == 0..(MaxTime + (MaxRun - 1) * MaxGap + 1)

collect_done_regular == collect_rest_at(RegularNow)

\* The stamps that continue a regular run IN (PAUSE RESUME)* OUT with strictly
\* increasing times; none once the OUT is in.
regular_next(ss) ==
    IF ss = <<>> THEN {Stamp("IN", t, <<>>) : t \in 0..MaxTime}
    ELSE LET last == ss[Len(ss)]
             kinds == IF last.transition \in {"IN", "RESUME"} THEN {"PAUSE", "OUT"}
                      ELSE IF last.transition = "PAUSE" THEN {"RESUME"}
                      ELSE {}
         IN  {Stamp(k, last.time + g, <<>>) : k \in kinds, g \in 1..MaxGap}

\* one step of the aggregator on a regular run of at most MaxRun stamps
collect_regular ==
    /\ Len(stamps) < MaxRun
    /\ collect_next(regular_next(stamps))

(***************************************************************************)
(* time_table (timesheet.py)                                               *)
(***************************************************************************)
\* Arrow.floor('week'): the Monday of the week; the epoch is a Thursday
floor_week(time) ==
    LET date == floor_day(time)
    IN  date - (((date \div (SecondsPerDay * TicksPerSecond)) + 3) % 7)
               * (SecondsPerDay * TicksPerSecond)

\* a clock time of the first day, in ticks
clock_time(h, m) == (h * 3600 + m * 60) * TicksPerSecond

rule == [kind |-> "rule", cells |-> <<>>]
row(cells) == [kind |-> "row", cells |-> cells]

\* time_table before its loop: the header, the rule and the three locals
time_table_start ==
    [rows |-> <<row(<<cell("date", 0), cell("begin", 0), cell("end", 0),
                      cell("pause", 0), cell("worked", 0), cell("tags", 0)>>),
                rule>>,
     last_week |-> None, week_work_time |-> 0, week_time_is_lower_bound |-> FALSE]

\* print_total of time_table: a rule and the row of the week's total, which
\* ends in +h when the total is a lower bound
print_total(tb) ==
    [tb EXCEPT !.rows = @ \o <<rule,
                               row(<<cell("week total", 0), cell("", 0), cell("", 0),
                                     cell("", 0),
                                     cell(IF tb.week_time_is_lower_bound
                                          THEN "hours+" ELSE "hours", tb.week_work_time),
                                     cell("", 0)>>)>>]

\* the loop body of time_table mutated: a new week resets the total but keeps
\* the lower-bound mark
time_table_day_sticky(tb, d, t) ==
    LET this_week == floor_week(d.date[1])
        t1 == IF tb.last_week # None /\ tb.last_week[1] < this_week
              THEN [print_total(tb) EXCEPT !.rows = Append(@, rule),
                                          !.week_work_time = 0]
              ELSE tb
    IN  [t1 EXCEPT !.last_week = Some(this_week),
                   !.week_work_time = @ + work_time(d, t),
                   !.week_time_is_lower_bound = @ \/ ~consistent(d),
                   !.rows = Append(@, row(columns(d, t).cols))]

\* the body of time_table's loop for one day and its row
time_table_day(tb, d, t) ==
    LET this_week == floor_week(d.date[1])
        t1 == IF tb.last_week # None /\ tb.last_week[1] < this_week
              THEN [print_total(tb) EXCEPT !.rows = Append(@, rule),
                                          !.week_work_time = 0,
                                          !.week_time_is_lower_bound = FALSE]
              ELSE tb
    IN  [t1 EXCEPT !.last_week = Some(this_week),
                   !.week_work_time = @ + work_time(d, t),
                   !.week_time_is_lower_bound = @ \/ ~consistent(d),
                   !.rows = Append(@, row(columns(d, t).cols))]

\* The days a sheet is made of: on the Sunday that ends a week or the Monday
\* that begins the next, begun at 08:00, and closed at 09:00, still open, or
\* tainted by an illegal stamp.
TableDates == {(d + 7 * w) * SecondsPerDay * TicksPerSecond : d \in {3, 4}, w \in 0..MaxWeek}

TableDays ==
    {[WorkDay EXCEPT !.date = Some(date), !.begin = Some(date + clock_time(8, 0)),
                     !.end = Some(date + clock_time(9, 0)), !.state = "ABSENT"] :
        date \in TableDates}
    \cup {[WorkDay EXCEPT !.date = Some(date), !.begin = Some(date + clock_time(8, 0)),
                          !.invalid_transitions = taint, !.state = "WORKING"] :
        date \in TableDates, taint \in BOOLEAN}

\* the time of the report: noon of the Tuesday after the last date
TableNow == (5 + 7 * MaxWeek) * SecondsPerDay * TicksPerSecond + clock_time(12, 0)

\* time_table takes the next day of its work_days, here any day of TableDays
time_table_row ==
    /\ pc \in {"start", "table"}
    /\ Len(work_days) < MaxDays
    /\ \E d \in TableDays :
        /\ columns(d, TableNow).raised = ""
        /\ work_days' = Append(work_days, d)
        /\ table' = time_table_day(table, d, TableNow)
    /\ now' = Some(TableNow)
    /\ pc' = "table"
    /\ UNCHANGED <<stamps, day, paused, last_stamp, clockVars, call>>

\* the work_days are exhausted: the last total
time_table_end ==
    /\ pc \in {"start", "table"}
    /\ table' = print_total(table)
    /\ now' = Some(TableNow)
    /\ pc' = "table_done"
    /\ UNCHANGED <<stamps, day, paused, last_stamp, work_days, clockVars, call>>

\* one step of the aggregator on an arbitrary input of at most MaxStamps stamps
collect_any ==
    /\ Len(stamps) < MaxStamps
    /\ collect_next(CollectStamps)

\* the stamps of an input with details: Stamp.__init__ strips them, so a text
\* without blanks at its ends, or the empty text
TaggedTimes == 0..1

TaggedDetails == {<<>>, <<"a">>, <<"b">>}

TaggedStamps == [transition : Transition, time : TaggedTimes, details : TaggedDetails]

\* one step of the aggregator on an input with details of at most MaxTagged stamps
collect_tagged ==
    /\ Len(stamps) < MaxTagged
    /\ collect_next(TaggedStamps)

\* the end of such an input, now being after its stamps
collect_done_tagged == collect_rest_at({MaxTime + 1})

(***************************************************************************)
(* Calls of the pure parts: Transition.may_follow, and a Stamp written to  *)
(* an empty directory and loaded back                                      *)
(***************************************************************************)
MaxDetailsLen == 3    \* the length of a details text

DetailsChars == {"a", " ", ":", "\n"}

RECURSIVE Texts(_)
Texts(n) ==
    IF n = 0 THEN {<<>>}
    ELSE Texts(n - 1) \cup {Append(t, c) : t \in {u \in Texts(n - 1) : Len(u) = n - 1},
                                          c \in DetailsChars}

\* whole-second times: the epoch and the seconds of the clock
RoundTripSeconds == {0} \cup ClockSeconds

call_may_follow ==
    /\ call = None
    /\ \E self \in Transition, other \in Transition \cup {NoTransition} :
        call' = Some([fn |-> "may_follow", self |-> self, other |-> other,
                      result |-> Transition_may_follow(self, other)])
    /\ UNCHANGED <<clockVars, reportVars>>

call_round_trip ==
    /\ call = None
    /\ \E transition \in Transition, n \in RoundTripSeconds, details \in Texts(MaxDetailsLen) :
        LET stamp == Stamp(transition, fromtimestamp(n), details)
            directory == Stamp_write(stamp, <<>>)
        IN  call' = Some([fn |-> "round_trip", details |-> details, stamp |-> stamp,
                          loaded |-> Stamp_load(directory, int_timestamp(stamp.time))])
    /\ UNCHANGED <<clockVars, reportVars>>

(***************************************************************************)
(* Schedule (schedule.py)                                                  *)
(*                                                                         *)
(* A calendar day is its number of days since 1970-01-01.  An Arrow that   *)
(* has been floored to the day is the number of its day, clocks taken to   *)
(* show UTC.  The date of an event is a datetime.date, as import_ical      *)
(* stores it, or a datetime.datetime at midnight UTC, as a schedule file   *)
(* may hold it.                                                            *)
(***************************************************************************)
MaxEvents == 2        \* the number of events of a schedule

\* Category, an IntEnum
WORK_DAY == 0
VACATION == 1
SICK == 2
HOLIDAY == 3
WEEKEND == 4

is_leap(y) == (y % 4 = 0 /\ y % 100 # 0) \/ y % 400 = 0

\* the day number of the proleptic Gregorian date y-m-d
days_from_civil(y, m, d) ==
    LET yy == IF m <= 2 THEN y - 1 ELSE y
        era == yy \div 400
        yoe == yy - era * 400
        doy == (153 * (IF m > 2 THEN m - 3 ELSE m + 9) + 2) \div 5 + d - 1
        doe == yoe * 365 + yoe \div 4 - yoe \div 100 + doy
    IN  era * 146097 + doe - 719468

\* year, month and day of a day number
civil_from_days(n) ==
    LET z == n + 719468
        era == z \div 146097
        doe == z - era * 146097
        yoe == (doe - doe \div 1460 + doe \div 36524 - doe \div 146096) \div 365
        doy == doe - (365 * yoe + yoe \div 4 - yoe \div 100)
        mp == (5 * doy + 2) \div 153
        m == IF mp < 10 THEN mp + 3 ELSE mp - 9
    IN  [year |-> yoe + era * 400 + (IF m <= 2 THEN 1 ELSE 0), month |-> m,
         day |-> doy - (153 * mp + 2) \div 5 + 1]

\* Arrow.weekday(): Monday is 0; 1970-01-01 was a Thursday
weekday(n) == (n + 3) % 7

\* date.replace(year=y): ValueError when the day does not exist in that year
replace_year(date, y) ==
    LET c == civil_from_days(date.day)
    IN  IF c.month = 2 /\ c.day = 29 /\ ~is_leap(y)
        THEN [raised |-> "ValueError", value |-> date]
        ELSE [raised |-> "", value |-> [date EXCEPT !.day = days_from_civil(y, c.month, c.day)]]

\* Arrow.__eq__(other): False unless other is an Arrow or a datetime.datetime,
\* else whether both are the same instant
Arrow_eq(self, other) == other.kind = "datetime" /\ other.day = self

\* Schedule.__init__: Monday to Friday, no required hours, no events
Schedule ==
    [working_days |-> <<0, 1, 2, 3, 4>>, hours_per_week |-> None, events |-> <<>>]

\* x in a list
in_list(x, list) == \E i \in 1..Len(list) : list[i] = x

\* categorize mutated: the weekday is not looked at
RECURSIVE categorize_any_weekday(_, _)
categorize_any_weekday(self, arrow) ==
    IF self.events = <<>> THEN [raised |-> "", value |-> WORK_DAY]
    ELSE LET k == Len(self.events)
             ev == self.events[k]
             before == categorize_any_weekday([self EXCEPT !.events = SubSeq(@, 1, k - 1)], arrow)
             moved == replace_year(ev.date, civil_from_days(arrow).year)
         IN  IF before.raised # "" THEN before
             ELSE IF ~ev.recurring
                 THEN IF Arrow_eq(arrow, ev.date)
                      THEN [before EXCEPT !.value = IF @ < ev.category THEN ev.category ELSE @]
                      ELSE before
             ELSE IF moved.raised # "" THEN [raised |-> moved.raised, value |-> before.value]
             ELSE IF Arrow_eq(arrow, moved.value)
                 THEN [before EXCEPT !.value = IF @ < ev.category THEN ev.category ELSE @]
             ELSE before

\* Schedule.categorize(arrow), day floored: WEEKEND off the working days, else
\* the loop over the events in their order; raised is the exception, if any
RECURSIVE categorize(_, _)
categorize(self, arrow) ==
    IF ~in_list(weekday(arrow), self.working_days) THEN [raised |-> "", value |-> WEEKEND]
    ELSE IF self.events = <<>> THEN [raised |-> "", value |-> WORK_DAY]
    ELSE LET k == Len(self.events)
             ev == self.events[k]
             before == categorize([self EXCEPT !.events = SubSeq(@, 1, k - 1)], arrow)
             moved == replace_year(ev.date, civil_from_days(arrow).year)
         IN  IF before.raised # "" THEN before
             ELSE IF ~ev.recurring
                 THEN IF Arrow_eq(arrow, ev.date)
                      THEN [before EXCEPT !.value = IF @ < ev.category THEN ev.category ELSE @]
                      ELSE before
             ELSE IF moved.raised # "" THEN [raised |-> moved.raised, value |-> before.value]
             ELSE IF Arrow_eq(arrow, moved.value)
                 THEN [before EXCEPT !.value = IF @ < ev.category THEN ev.category ELSE @]
             ELSE before

\* The dates of the events: a Monday, a Sunday and a 29th of February; the
\* days asked about: these and a new year's day of a later year.
EventDays == {days_from_civil(2024, 1, 1), days_from_civil(2023, 1, 1),
              days_from_civil(2024, 2, 29)}
QueryDays == EventDays \cup {days_from_civil(2025, 1, 1)}

ScheduleEvents ==
    [date : [kind : {"date", "datetime"}, day : EventDays],
     category : {VACATION, HOLIDAY}, recurring : BOOLEAN, summary : {None}]

RECURSIVE EventLists(_)
EventLists(n) ==
    IF n = 0 THEN {<<>>}
    ELSE EventLists(n - 1) \cup {Append(l, ev) : l \in {u \in EventLists(n - 1) : Len(u) = n - 1},
                                                ev \in ScheduleEvents}

\* the working days: Monday to Friday, or Tuesday to Saturday
WorkingDays == {<<0, 1, 2, 3, 4>>, <<1, 2, 3, 4, 5>>}

\* days_in_range(start, end): the days from start up to, not including, end
RECURSIVE days_in_range(_, _)
days_in_range(start, end) ==
    IF start < end THEN <<start>> \o days_in_range(start + 1, end) ELSE <<>>

\* import_ical mutated: the day of the end is taken in
import_event_inclusive(component, category) ==
    IF component.type # "Event" THEN <<>>
    ELSE IF component.dtstart = None \/ component.dtend = None THEN <<>>
    ELSE IF component.rrule # None /\ component.rrule[1].freq = None THEN <<>>
    ELSE LET recurring == component.rrule # None /\ component.rrule[1].freq = Some("YEARLY")
             range == days_in_range(component.dtstart[1], component.dtend[1] + 1)
         IN  [i \in 1..Len(range) |->
                 [date |-> [kind |-> "date", day |-> range[i]], category |-> category,
                  recurring |-> recurring, summary |-> component.summary]]

\* The body of import_ical's loop for one component: the entries it adds to
\* self.events.  A component that is no Event is passed over, and one that
\* lacks dtstart, dtend or the freq of its rrule is skipped (KeyError).
import_event(component, category) ==
    IF component.type # "Event" THEN <<>>
    ELSE IF component.dtstart = None \/ component.dtend = None THEN <<>>
    ELSE IF component.rrule # None /\ component.rrule[1].freq = None THEN <<>>
    ELSE LET recurring == component.rrule # None /\ component.rrule[1].freq = Some("YEARLY")
             range == days_in_range(component.dtstart[1], component.dtend[1])
         IN  [i \in 1..Len(range) |->
                 [date |-> [kind |-> "date", day |-> range[i]], category |-> category,
                  recurring |-> recurring, summary |-> component.summary]]

\* Schedule.import_ical(file, category), the file parsed to its components
RECURSIVE import_ical(_, _, _)
import_ical(self, cal, category) ==
    IF cal = <<>> THEN self
    ELSE LET before == import_ical(self, SubSeq(cal, 1, Len(cal) - 1), category)
         IN  [before EXCEPT !.events = @ \o import_event(cal[Len(cal)], category)]

MaxComponents == 2    \* the number of components of a calendar file

\* The components of a calendar: events that begin and end on 2024-01-01 or
\* 2024-01-03 or lack either, with a summary or a rule of recurrence or
\* neither, and a component that is no event.
Components ==
    {c \in [type : {"Event"},
            dtstart : {None, Some(days_from_civil(2024, 1, 1)),
                       Some(days_from_civil(2024, 1, 3))},
            dtend : {None, Some(days_from_civil(2024, 1, 1)),
                     Some(days_from_civil(2024, 1, 3))},
            rrule : {None, Some([freq |-> Some("YEARLY")]), Some([freq |-> Some("WEEKLY")]),
                     Some([freq |-> None])},
            summary : {None, Some(<<"x">>)}] :
        c.summary = None \/ c.rrule = None}
    \cup {[type |-> "Timezone", dtstart |-> None, dtend |-> None, rrule |-> None,
           summary |-> None]}

RECURSIVE Calendars(_)
Calendars(n) ==
    IF n = 0 THEN {<<>>}
    ELSE Calendars(n - 1) \cup {Append(l, c) : l \in {u \in Calendars(n - 1) : Len(u) = n - 1},
                                              c \in Components}

\* the events a schedule holds before an import: none, or a vacation
EventsBefore ==
    {<<>>, <<[date |-> [kind |-> "date", day |-> days_from_civil(2023, 1, 1)],
              category |-> VACATION, recurring |-> FALSE, summary |-> None]>>}

call_import_ical ==
    /\ call = None
    /\ \E events \in EventsBefore, cal \in Calendars(MaxComponents),
          category \in {VACATION, HOLIDAY} :
        LET self == [Schedule EXCEPT !.events = events]
        IN  call' = Some([fn |-> "import_ical", self |-> self, cal |-> cal,
                          category |-> category,
                          result |-> import_ical(self, cal, category)])
    /\ UNCHANGED <<clockVars, reportVars>>

call_categorize ==
    /\ call = None
    /\ \E working_days \in WorkingDays, events \in EventLists(MaxEvents), d \in QueryDays :
        LET self == [Schedule EXCEPT !.working_days = working_days, !.events = events]
        IN  call' = Some([fn |-> "categorize", self |-> self, day |-> d,
                          result |-> categorize(self, d)])
    /\ UNCHANGED <<clockVars, reportVars>>

(***************************************************************************)
(* The report entry point (timesheet.py): main                             *)
(*                                                                         *)
(* The stamp directory of a report is None when it does not exist.  The    *)
(* configuration is what main reads of it: the style of the timesheet      *)
(* section and the file of the schedule section, each None when its        *)
(* section or key is missing.                                              *)
(***************************************************************************)
\* sorted(files, reverse=True) over the file names as strings, each given by its n
RECURSIVE sorted_reverse(_)
sorted_reverse(files) ==
    IF files = {} THEN <<>>
    ELSE <<str_max(files)>> \o sorted_reverse(files \ {str_max(files)})

\* The loop of main over the sorted files: the stamps appended, newest name
\* first, until one is older than since; raised is the exception of a load
RECURSIVE load_since(_, _, _)
load_since(directory, files, since) ==
    IF files = <<>> THEN [raised |-> "", stamps |-> <<>>]
    ELSE LET st == Stamp_load(directory, Head(files))
             rest == load_since(directory, Tail(files), since)
         IN  IF st.raised # "" THEN [raised |-> st.raised, stamps |-> <<>>]
             ELSE IF st.value[1].time < since THEN [raised |-> "", stamps |-> <<>>]
             ELSE IF rest.raised # "" THEN rest
             ELSE [raised |-> "", stamps |-> <<st.value[1]>> \o rest.stamps]

\* main of the report up to the tables: iter_stamps lists the directory
\* (FileNotFoundError when there is none), the stamps are loaded, and the
\* style and, for the week table, the schedule file are looked up (KeyError)
timesheet_main(a, cfg, directory) ==
    IF directory = None THEN [raised |-> "FileNotFoundError", stamps |-> <<>>, rc |-> 1]
    ELSE LET loaded == load_since(directory[1], sorted_reverse(iter_stamps(directory[1])),
                                  a.since)
         IN  IF loaded.raised # "" THEN [raised |-> loaded.raised, stamps |-> <<>>, rc |-> 1]
             ELSE IF cfg.style = None \/ (~a.stamps /\ cfg.schedule_file = None)
                 THEN [raised |-> "KeyError", stamps |-> loaded.stamps, rc |-> 1]
             ELSE [raised |-> "", stamps |-> loaded.stamps, rc |-> 0]

\* the stamp directories of a report: none, or IN and OUT stamps at some of
\* the seconds of the clock
SheetDirectories ==
    {None} \cup {Some(d) : d \in UNION {[S -> {<<"i", "n", ":", "\n">>,
                                               <<"o", "u", "t", ":", "\n">>}] :
                                        S \in SUBSET ClockSeconds}}

\* the command lines of the report: --stamps or not, and since
SheetArgs == [stamps : BOOLEAN, since : {0} \cup {fromtimestamp(n) : n \in ClockSeconds}]

SheetConfigs == [style : {None, Some("ascii")}, schedule_file : {None, Some("schedule")}]

call_timesheet ==
    /\ call = None
    /\ \E a \in SheetArgs, cfg \in SheetConfigs, directory \in SheetDirectories :
        call' = Some([fn |-> "timesheet", args |-> a, cfg |-> cfg, directory |-> directory,
                      result |-> timesheet_main(a, cfg, directory)])
    /\ UNCHANGED <<clockVars, reportVars>>

call_most_recent ==
    /\ call = None
    /\ \E directory \in SheetDirectories \ {None} :
        call' = Some([fn |-> "most_recent", directory |-> directory,
                      result |-> most_recent(directory[1])])
    /\ UNCHANGED <<clockVars, reportVars>>

(***************************************************************************)
(* week_table (timesheet.py): the summary under the table                  *)
(***************************************************************************)
\* the loop of week_table over reversed(work_days): the work_time of the
\* trailing days that lie in the week of now
RECURSIVE current_week_time(_, _)
current_week_time(days, t) ==
    IF days = <<>> THEN 0
    ELSE IF floor_week(days[Len(days)].date[1]) # floor_week(t) THEN 0
    ELSE work_time(days[Len(days)], t) + current_week_time(SubSeq(days, 1, Len(days) - 1), t)

\* week_table after time_table: what the summary line shows, if it is printed
\* (worked and required in ticks, and which of the three messages), and
\* whether the line about an inconsistent sheet follows
week_table_summary(days, t, schedule) ==
    LET worked == current_week_time(days, t)
        inconsistent == \E i \in 1..Len(days) : ~consistent(days[i])
    IN  IF schedule.hours_per_week = None
        THEN [raised |-> "", line |-> None, inconsistent |-> inconsistent]
        ELSE LET required == schedule.hours_per_week[1] * clock_time(1, 0)
             IN  IF required = 0
                 THEN [raised |-> "ZeroDivisionError", line |-> None, inconsistent |-> FALSE]
                 ELSE [raised |-> "",
                       line |-> Some([worked |-> worked, required |-> required,
                                      message |-> IF worked < required THEN "to go"
                                                  ELSE IF worked > required THEN "overtime"
                                                  ELSE "on time"]),
                       inconsistent |-> inconsistent]

\* The schedules of a report: Monday to Friday, with no required hours or 0,
\* 1 or 5 hours a week, and no event or a HOLIDAY on the Monday of the week
\* of the report, held as a datetime.
TableSchedules ==
    {[Schedule EXCEPT !.hours_per_week = hours, !.events = events] :
        hours \in {None, Some(0), Some(1), Some(5)},
        events \in {<<>>, <<[date |-> [kind |-> "datetime",
                                      day |-> floor_week(TableNow)
                                                \div (SecondsPerDay * TicksPerSecond)],
                            category |-> HOLIDAY, recurring |-> FALSE, summary |-> None]>>}}

\* week_table once time_table has returned
week_table_rest ==
    /\ pc = "table_done"
    /\ \E schedule \in TableSchedules :
        call' = Some([fn |-> "week_table", schedule |-> schedule,
                      result |-> week_table_summary(work_days, now[1], schedule)])
    /\ pc' = "week_table_done"
    /\ UNCHANGED <<clockVars, stamps, day, paused, last_stamp, work_days, now, table>>

(***************************************************************************)
(* Specifications                                                          *)
(***************************************************************************)
Init ==
    /\ store = <<>>
    /\ args = None
    /\ rc = 0
    /\ stamps = <<>>
    /\ day = None
    /\ paused = None
    /\ last_stamp = None
    /\ work_days = <<>>
    /\ now = None
    /\ pc = "start"
    /\ call = None
    /\ table = time_table_start

\* the clock, invoked again and again on one stamp directory
Next == main

Spec == Init /\ [][Next]_vars

\* the aggregator on every input with details of at most MaxTagged stamps
NextTagged == collect_tagged \/ collect_done_tagged

SpecTagged == Init /\ [][NextTagged]_vars

\* the clock, never invoked with --force
NextUnforced == main_unforced

SpecUnforced == Init /\ [][NextUnforced]_vars

\* the aggregator on every input of at most MaxStamps stamps
NextCollect == collect_any \/ collect_done

SpecCollect == Init /\ [][NextCollect]_vars

\* the aggregator on every regular run of at most MaxRun stamps
NextRegular == collect_regular \/ collect_done_regular

SpecRegular == Init /\ [][NextRegular]_vars

\* time_table on every sheet of at most MaxDays days
NextTable == time_table_row \/ time_table_end \/ week_table_rest

SpecTable == Init /\ [][NextTable]_vars

\* the report and most_recent on every stamp directory of the bounded set
NextSheet == call_timesheet \/ call_most_recent

SpecSheet == Init /\ [][NextSheet]_vars

\* the schedule, called on every input of the bounded sets
NextSchedule == call_categorize \/ call_import_ical

SpecSchedule == Init /\ [][NextSchedule]_vars

\* the pure parts, called on every input of the bounded sets
NextCalls == call_may_follow \/ call_round_trip

SpecCalls == Init /\ [][NextCalls]_vars

(***************************************************************************)
(* C1                                                                      *)
(***************************************************************************)
\* the adjacency table: <<candidate, predecessor>> for every legal pair
AdjacencyTable ==
    {<<"IN", "OUT">>, <<"IN", NoTransition>>}
    \cup {<<c, p>> : c \in {"OUT", "PAUSE"}, p \in {"IN", "RESUME", "TAG"}}
    \cup {<<"RESUME", "PAUSE">>}
    \cup {<<"TAG", p>> : p \in {"IN", "PAUSE", "RESUME", "TAG"}}

\* C1: whatever candidate and predecessor (a transition or None)
\* Transition.may_follow is called with, it answers true exactly when the
\* pair is in the adjacency table.
C1_MayFollowMatchesTable ==
    (call # None /\ call[1].fn = "may_follow") =>
        (call[1].result <=> <<call[1].self, call[1].other>> \in AdjacencyTable)

\* C1 witness: may_follow has refused RESUME after IN and has allowed TAG after PAUSE
C1_Witness ==
    /\ call # None /\ call[1].fn = "may_follow"
    /\ \/ (call[1].self = "RESUME" /\ call[1].other = "IN" /\ ~call[1].result)
       \/ (call[1].self = "TAG" /\ call[1].other = "PAUSE" /\ call[1].result)

(***************************************************************************)
(* C10                                                                     *)
(***************************************************************************)
\* C10: every Stamp written to the store and loaded back by its file name
\* comes back without an exception, with the same transition, the same time
\* and the details it was made with, stripped of leading and trailing whitespace.
C10_RoundTrip ==
    (call # None /\ call[1].fn = "round_trip") =>
        /\ call[1].loaded.raised = ""
        /\ call[1].loaded.value =
              Some([transition |-> call[1].stamp.transition,
                    time |-> call[1].stamp.time,
                    details |-> strip(call[1].details)])


(***************************************************************************)
(* The store as the claims speak of it                                     *)
(***************************************************************************)
\* the Stamp the file n.stamp of a directory holds
stored(directory, n) == Stamp_load(directory, n).value[1]

\* the greatest number of a set of file numbers
newest_file(files) == CHOOSE n \in files : \A m \in files : m <= n

\* the most recent stored stamp, by time, or None
newest(directory) ==
    IF DOMAIN directory = {} THEN None
    ELSE Some(stored(directory, newest_file(DOMAIN directory)))

\* the stamps of the files of a directory in chronological order
RECURSIVE in_order(_, _)
in_order(directory, files) ==
    IF files = {} THEN <<>>
    ELSE Append(in_order(directory, files \ {newest_file(files)}),
                stored(directory, newest_file(files)))

chronological(directory) == in_order(directory, DOMAIN directory)

\* the run was an append (neither --replace nor --remove), and the Stamp it made
is_append(a) == ~a.replace /\ ~a.remove
this_of(a) == Stamp(a.transition, a.at, IF a.details # None THEN a.details[1] ELSE <<>>)

(***************************************************************************)
(* C2                                                                      *)
(***************************************************************************)
\* C2: an append without --force whose stamp may not follow the most recent
\* stored stamp (by kind, by a time that is not strictly greater, or as a
\* non-IN on an empty store) is refused: the store is left as it was and the
\* exit code is 1.
C2_IllegalAppendRefused ==
    [][(/\ is_append(args'[1])
        /\ ~args'[1].force
        /\ ~Stamp_may_follow(this_of(args'[1]), newest(store)))
       => (store' = store /\ rc' = 1)]_vars

(***************************************************************************)
(* C3                                                                      *)
(***************************************************************************)
\* C3: after an accepted append, forced or not, every stamp the store held is
\* still there with the same transition, time and details, and the store
\* holds exactly one stamp more.
C3_AppendKeepsStamps ==
    [][(is_append(args'[1]) /\ rc' = 0)
       => /\ \A n \in DOMAIN store :
                n \in DOMAIN store' /\ stored(store', n) = stored(store, n)
          /\ Cardinality(DOMAIN store') = Cardinality(DOMAIN store) + 1]_vars

(***************************************************************************)
(* C4                                                                      *)
(***************************************************************************)
\* C4, the gate: when the most recent stored stamp is an IN, an append of IN
\* without --force is refused.
C4_SecondInRefused ==
    [][(/\ is_append(args'[1])
        /\ ~args'[1].force
        /\ args'[1].transition = "IN"
        /\ newest(store) # None
        /\ newest(store)[1].transition = "IN")
       => (store' = store /\ rc' = 1)]_vars

\* C4, the aggregator, on any input: an IN that arrives while a day is open
\* makes collect yield that day with invalid_transitions = true and its end
\* as it was (absent), and open a fresh WorkDay that begins at the IN's time.
C4_AggregatorSplitsDays ==
    [][(/\ Len(stamps') = Len(stamps) + 1
        /\ last_stamp'[1].transition = "IN"
        /\ day # None)
       => /\ work_days' = Append(work_days, [day[1] EXCEPT !.invalid_transitions = TRUE])
          /\ day[1].end = None
          /\ day' # None
          /\ day'[1].begin = Some(last_stamp'[1].time)
          /\ day'[1].tags = <<>> /\ day'[1].pause_time = 0]_vars

(***************************************************************************)
(* C5                                                                      *)
(***************************************************************************)
\* aggregating a directory in chronological order, at a now after the last
\* second of the clock, yields an inconsistent day
surfaces(directory) ==
    \E days \in {collect(chronological(directory), (MaxSecond + 1) * TicksPerSecond)} :
        \E i \in DOMAIN days : ~consistent(days[i])

\* C5 as claimed: a forced append is written unvalidated with exit code 0, and
\* whenever its stamp is one the gate would have refused after the most recent
\* stored stamp, aggregating the store it leaves yields an inconsistent WorkDay.
C5_ForcedAlwaysSurfaces ==
    [][(is_append(args'[1]) /\ args'[1].force)
       => /\ store' = Stamp_write(this_of(args'[1]), store) /\ rc' = 0
          /\ ~Stamp_may_follow(this_of(args'[1]), newest(store)) => surfaces(store')]_vars

\* the stamp is filed under a later second than every stored stamp, and its
\* transition may not follow that of the most recent one (None on an empty store)
late_and_illegal(this, directory) ==
    /\ \A n \in DOMAIN directory : n < int_timestamp(this.time)
    /\ ~Transition_may_follow(this.transition,
                              IF newest(directory) = None THEN NoTransition
                              ELSE newest(directory)[1].transition)

\* C5 amended: a forced append is written unvalidated with exit code 0, and
\* whenever its stamp falls in a later second than every stored stamp and its
\* transition may not follow that of the most recent stored stamp, aggregating
\* the store it leaves in chronological order yields an inconsistent WorkDay.
C5_ForcedLateSurfaces ==
    [][(is_append(args'[1]) /\ args'[1].force)
       => /\ store' = Stamp_write(this_of(args'[1]), store) /\ rc' = 0
          /\ late_and_illegal(this_of(args'[1]), store) => surfaces(store')]_vars

\* C5 witness: a forced append has put a RESUME behind a single stored IN,
\* whose aggregate was consistent, and the aggregate now shows an inconsistent day
C5_Witness ==
    /\ args # None /\ is_append(args[1]) /\ args[1].force /\ rc = 0
    /\ args[1].transition = "RESUME"
    /\ Cardinality(DOMAIN store) = 2
    /\ newest(store)[1] = this_of(args[1])
    /\ LET before == remove_at(store, newest(store)[1].time)
       IN  newest(before)[1].transition = "IN" /\ ~surfaces(before)
    /\ surfaces(store)

(***************************************************************************)
(* C6                                                                      *)
(***************************************************************************)
\* the sum of (RESUME time - PAUSE time) over the RESUMEs of a run
RECURSIVE pause_sum(_)
pause_sum(ss) ==
    IF Len(ss) < 2 THEN 0
    ELSE pause_sum(SubSeq(ss, 1, Len(ss) - 1))
         + (IF ss[Len(ss)].transition = "RESUME"
            THEN ss[Len(ss)].time - ss[Len(ss) - 1].time ELSE 0)

\* IN@08:00, PAUSE@12:00, RESUME@12:30, OUT@16:00
ExampleRun ==
    <<Stamp("IN", clock_time(8, 0), <<>>), Stamp("PAUSE", clock_time(12, 0), <<>>),
      Stamp("RESUME", clock_time(12, 30), <<>>), Stamp("OUT", clock_time(16, 0), <<>>)>>

\* C6: once a regular run IN (PAUSE RESUME)* OUT with strictly increasing
\* times is aggregated, collect has yielded exactly one WorkDay; it is complete,
\* begins at the IN and ends at the OUT, its pause_time is the sum of
\* (RESUME time - PAUSE time) over the pairs, and its work_time is
\* end - begin - pause_time whatever now is.  The run of 08:00, 12:00, 12:30,
\* 16:00 gives a pause of 30 minutes and 7 hours 30 minutes of work.
C6_PauseAccounting ==
    /\ (pc = "done" /\ stamps # <<>> /\ stamps[Len(stamps)].transition = "OUT") =>
        /\ Len(work_days) = 1
        /\ complete(work_days[1])
        /\ work_days[1].begin = Some(stamps[1].time)
        /\ work_days[1].end = Some(stamps[Len(stamps)].time)
        /\ work_days[1].pause_time = pause_sum(stamps)
        /\ work_time(work_days[1], now[1])
             = stamps[Len(stamps)].time - stamps[1].time - pause_sum(stamps)
    /\ \E days \in {collect(ExampleRun, clock_time(17, 0))} :
        /\ Len(days) = 1
        /\ days[1].pause_time = clock_time(0, 30)
        /\ work_time(days[1], clock_time(17, 0)) = clock_time(7, 30)

\* C6 witness: a run with two pauses of different lengths has been aggregated
C6_Witness ==
    /\ pc = "done" /\ Len(stamps) = 6 /\ stamps[6].transition = "OUT"
    /\ stamps[3].time - stamps[2].time = 1
    /\ stamps[5].time - stamps[4].time = 2
    /\ work_days[1].pause_time = 3

(***************************************************************************)
(* C7                                                                      *)
(***************************************************************************)
\* C7: when the input has ended and its last stamp is not an OUT, the day that
\* was open is the last WorkDay yielded, its end is absent, and its work_time,
\* if it is consistent, is now - begin - pause_time; an input of a single IN at
\* t with now >= t yields one day in state WORKING whose work_time is now - t.
C7_OpenDay ==
    (pc = "done" /\ stamps # <<>> /\ stamps[Len(stamps)].transition # "OUT") =>
        LET d == work_days[Len(work_days)]
        IN  /\ day # None
            /\ [d EXCEPT !.pause_time = 0] = [day[1] EXCEPT !.pause_time = 0]
            /\ d.end = None
            /\ consistent(d) => work_time(d, now[1]) = now[1] - d.begin[1] - d.pause_time
            /\ (Len(stamps) = 1 /\ stamps[1].transition = "IN" /\ now[1] >= stamps[1].time) =>
                /\ Len(work_days) = 1
                /\ d.state = "WORKING"
                /\ work_time(d, now[1]) = now[1] - stamps[1].time

\* C7 witness: a single IN at 0 has been aggregated at now = 2
C7_Witness ==
    /\ pc = "done" /\ Len(stamps) = 1 /\ stamps[1].transition = "IN"
    /\ stamps[1].time = 0 /\ now = Some(2)
    /\ work_time(work_days[1], 2) = 2


(***************************************************************************)
(* C8                                                                      *)
(***************************************************************************)
\* what collect holds of the day a stamp went into: the day it has yielded
\* for an OUT, else its open day
day_of(transition, open, yielded) ==
    IF transition = "OUT" THEN yielded[Len(yielded)] ELSE open[1]

\* a step of collect that takes a non-IN stamp which may not follow its
\* predecessor: the stamp's day is tainted, the stamp's effect is there, and
\* the open day, if there was one, is still the day the stamp went into
TaintingStep ==
    (stamps' # stamps /\ stamps'[Len(stamps')].transition # "IN"
        /\ ~Stamp_may_follow(stamps'[Len(stamps')], last_stamp)) =>
        LET stamp == stamps'[Len(stamps')]
            d == day_of(stamp.transition, day', work_days')
        IN  /\ d.invalid_transitions
            /\ stamp.transition = "OUT" =>
                d.end = Some(stamp.time) /\ d.state = "ABSENT" /\ day' = None
            /\ stamp.transition = "PAUSE" =>
                d.state = "PAUSING" /\ paused' = Some(stamp.time)
            /\ stamp.transition = "RESUME" =>
                /\ d.state = "WORKING" /\ paused' = None
                /\ paused # None /\ day # None =>
                    d.pause_time = day[1].pause_time + (stamp.time - paused[1])
            /\ Len(work_days') + (IF day' = None THEN 0 ELSE 1) = Len(work_days) + 1
            /\ day # None => d.date = day[1].date /\ d.begin = day[1].begin

\* C8: a non-IN stamp that may not follow its predecessor taints the day it
\* goes into, its effect is applied, and it starts no day when one is open;
\* an IN followed by a later RESUME yields exactly one WorkDay, tainted and
\* WORKING; and the worked cell of every inconsistent day that collect yields
\* is the placeholder, not a figure.
C8_TaintWithoutStop ==
    /\ [][TaintingStep]_vars
    /\ [](pc = "done" =>
            /\ \A i \in 1..Len(work_days) :
                ~consistent(work_days[i]) =>
                    /\ columns(work_days[i], now[1]).raised = ""
                    /\ columns(work_days[i], now[1]).cols[5] = cell("placeholder", 0)
            /\ (Len(stamps) = 2 /\ stamps[1].transition = "IN"
                    /\ stamps[2].transition = "RESUME" /\ stamps[1].time < stamps[2].time) =>
                /\ Len(work_days) = 1
                /\ work_days[1].invalid_transitions
                /\ work_days[1].state = "WORKING")

\* C8 witness: IN at 0 and RESUME at 1 have been aggregated into one tainted day
C8_Witness ==
    /\ pc = "done" /\ Len(stamps) = 2
    /\ stamps[1].transition = "IN" /\ stamps[1].time = 0
    /\ stamps[2].transition = "RESUME" /\ stamps[2].time = 1
    /\ Len(work_days) = 1 /\ work_days[1].invalid_transitions
    /\ columns(work_days[1], now[1]).cols[5].kind = "placeholder"

(***************************************************************************)
(* C9                                                                      *)
(***************************************************************************)
\* the dates of the days do not decrease
RECURSIVE dates_in_order(_)
dates_in_order(days) ==
    \/ Len(days) < 2
    \/ /\ days[Len(days) - 1].date[1] <= days[Len(days)].date[1]
       /\ dates_in_order(SubSeq(days, 1, Len(days) - 1))

\* the sum of work_time over the consistent days of the week w
RECURSIVE week_sum(_, _, _)
week_sum(days, w, t) ==
    IF days = <<>> THEN 0
    ELSE week_sum(Tail(days), w, t)
         + (IF floor_week(Head(days).date[1]) = w /\ consistent(Head(days))
            THEN work_time(Head(days), t) ELSE 0)

\* the weeks of the days, each once, in the order of their first day
RECURSIVE weeks_of(_)
weeks_of(days) ==
    IF days = <<>> THEN <<>>
    ELSE LET before == weeks_of(SubSeq(days, 1, Len(days) - 1))
             w == floor_week(days[Len(days)].date[1])
         IN  IF \E i \in 1..Len(before) : before[i] = w THEN before ELSE Append(before, w)

\* the worked cells of the week-total rows, in the order printed
totals_printed(rows) ==
    LET total(r) == r.kind = "row" /\ r.cells[1].kind = "week total"
        picked == SelectSeq(rows, total)
    IN  [i \in 1..Len(picked) |-> picked[i].cells[5]]

\* C9: once time_table has printed a sheet of days whose dates do not
\* decrease, it has printed one total per week of the sheet, in order; each
\* total is the sum of work_time over the consistent days of its week, and it
\* is marked as a lower bound exactly when a day of that week is inconsistent.
C9_WeekTotals ==
    (pc = "table_done" /\ work_days # <<>> /\ dates_in_order(work_days)) =>
        LET weeks == weeks_of(work_days)
            totals == totals_printed(table.rows)
        IN  /\ Len(totals) = Len(weeks)
            /\ \A k \in 1..Len(weeks) :
                /\ totals[k].value = week_sum(work_days, weeks[k], now[1])
                /\ totals[k].kind = "hours+" <=>
                    \E i \in 1..Len(work_days) :
                        /\ floor_week(work_days[i].date[1]) = weeks[k]
                        /\ ~consistent(work_days[i])
                /\ totals[k].kind \in {"hours", "hours+"}

\* C9 witness: a sheet whose first week has an inconsistent day and whose
\* second week has two consistent days has been printed; the first total is
\* marked and the second is the unmarked sum of the two days
C9_Witness ==
    /\ pc = "table_done" /\ Len(work_days) = 3
    /\ ~consistent(work_days[1])
    /\ consistent(work_days[2]) /\ consistent(work_days[3])
    /\ floor_week(work_days[1].date[1]) < floor_week(work_days[2].date[1])
    /\ floor_week(work_days[2].date[1]) = floor_week(work_days[3].date[1])
    /\ work_days[2].date # work_days[3].date
    /\ totals_printed(table.rows)
         = <<cell("hours+", 0), cell("hours", 2 * clock_time(1, 0))>>


(***************************************************************************)
(* C11                                                                     *)
(***************************************************************************)
\* C11: --replace overwrites the most recent stamp with one of the same time
\* that carries the given transition, and the given details or else the old
\* ones, and leaves the stored timestamps and every other stamp as they were;
\* --remove deletes the most recent stamp and nothing else; on an empty store
\* either changes nothing and exits with code 1.
C11_ReplaceRemoveMostRecent ==
    [][(args'[1].replace \/ args'[1].remove) =>
        IF DOMAIN store = {} THEN store' = store /\ rc' = 1
        ELSE LET top == newest_file(DOMAIN store)
                 old == stored(store, top)
             IN  /\ rc' = 0
                 /\ \A n \in DOMAIN store \ {top} :
                        n \in DOMAIN store' /\ store'[n] = store[n]
                 /\ args'[1].replace =>
                        /\ DOMAIN store' = DOMAIN store
                        /\ stored(store', top)
                             = Stamp(args'[1].transition, old.time,
                                     IF args'[1].details # None
                                     THEN args'[1].details[1] ELSE old.details)
                 /\ args'[1].remove => DOMAIN store' = DOMAIN store \ {top}]_vars


(***************************************************************************)
(* C12                                                                     *)
(***************************************************************************)
\* an event matches a day: the same date, or for a recurring event the same
\* month and day in any year
matches(ev, d) ==
    IF ev.recurring
    THEN /\ civil_from_days(ev.date.day).month = civil_from_days(d).month
         /\ civil_from_days(ev.date.day).day = civil_from_days(d).day
    ELSE ev.date.day = d

\* the greatest category of the events matching a day, WORK_DAY when none does
greatest_match(events, d) ==
    LET cats == {WORK_DAY} \cup {events[i].category : i \in {j \in 1..Len(events) : matches(events[j], d)}}
    IN  CHOOSE c \in cats : \A x \in cats : x <= c

\* C12: on a working weekday categorize returns the greatest category, by
\* WORK_DAY < VACATION < SICK < HOLIDAY < WEEKEND, of the events that match
\* the day, and WORK_DAY when none matches, in whatever order the events are.
C12_GreatestCategoryWins ==
    (call # None /\ call[1].fn = "categorize"
        /\ in_list(weekday(call[1].day), call[1].self.working_days)) =>
        /\ call[1].result.raised = ""
        /\ call[1].result.value = greatest_match(call[1].self.events, call[1].day)

(***************************************************************************)
(* C13                                                                     *)
(***************************************************************************)
\* C13: for a day whose weekday is not among the working days categorize
\* returns WEEKEND, whatever events match the day.
C13_WeekendOverrides ==
    (call # None /\ call[1].fn = "categorize"
        /\ ~in_list(weekday(call[1].day), call[1].self.working_days)) =>
        /\ call[1].result.raised = ""
        /\ call[1].result.value = WEEKEND

\* C13 witness: categorize has answered WEEKEND for Monday 2024-01-01, not a
\* working day of a Tuesday-to-Saturday schedule that holds a HOLIDAY on that
\* date as a datetime
C13_Witness ==
    /\ call # None /\ call[1].fn = "categorize"
    /\ call[1].day = days_from_civil(2024, 1, 1)
    /\ call[1].self.working_days = <<1, 2, 3, 4, 5>>
    /\ \E i \in 1..Len(call[1].self.events) :
        /\ call[1].self.events[i].category = HOLIDAY
        /\ call[1].self.events[i].date = [kind |-> "datetime", day |-> call[1].day]
        /\ ~call[1].self.events[i].recurring
    /\ call[1].result.value = WEEKEND


(***************************************************************************)
(* C14                                                                     *)
(***************************************************************************)
\* an event of a calendar that has a start and an end (and, if it has a rule
\* of recurrence, the rule's frequency)
whole_event(c) ==
    /\ c.type = "Event" /\ c.dtstart # None /\ c.dtend # None
    /\ c.rrule # None => c.rrule[1].freq # None

\* the number of days d with start <= d < end
span(c) == IF c.dtend[1] > c.dtstart[1] THEN c.dtend[1] - c.dtstart[1] ELSE 0

\* the number of entries the whole events of a calendar expand to
RECURSIVE entries_due(_)
entries_due(cal) ==
    IF cal = <<>> THEN 0
    ELSE entries_due(Tail(cal)) + (IF whole_event(Head(cal)) THEN span(Head(cal)) ELSE 0)

\* C14: import_ical leaves the events the schedule held in place and appends,
\* for each event of the calendar in turn, one entry per day d with
\* start <= d < end, of the given category; an event from 2024-01-01 to
\* 2024-01-03 without a rule gives the two non-recurring entries 2024-01-01 and
\* 2024-01-02, and an event whose end is not after its start gives none.
C14_ImportExpandsDays ==
    (call # None /\ call[1].fn = "import_ical") =>
        LET old == call[1].self.events
            new == call[1].result.events
            cal == call[1].cal
            whole == SelectSeq(cal, whole_event)
        IN  /\ Len(new) = Len(old) + entries_due(cal)
            /\ SubSeq(new, 1, Len(old)) = old
            /\ \A k \in 1..Len(whole) :
                \A i \in 1..span(whole[k]) :
                    LET entry == new[Len(old) + entries_due(SubSeq(whole, 1, k - 1)) + i]
                    IN  /\ entry.date = [kind |-> "date", day |-> whole[k].dtstart[1] + i - 1]
                        /\ entry.category = call[1].category
                        /\ entry.summary = whole[k].summary
                        /\ whole[k].rrule = None => ~entry.recurring
            /\ (Len(cal) = 1 /\ whole_event(cal[1]) /\ cal[1].rrule = None
                    /\ cal[1].dtstart = Some(days_from_civil(2024, 1, 1))
                    /\ cal[1].dtend = Some(days_from_civil(2024, 1, 3))) =>
                /\ Len(new) = Len(old) + 2
                /\ new[Len(old) + 1].date.day = days_from_civil(2024, 1, 1)
                /\ new[Len(old) + 2].date.day = days_from_civil(2024, 1, 2)
                /\ ~new[Len(old) + 1].recurring /\ ~new[Len(old) + 2].recurring

\* C14 witness: a calendar of two events, the first from 2024-01-01 to
\* 2024-01-03 and the second ending where it begins, has been imported into a
\* schedule that held one event, which now holds three
C14_Witness ==
    /\ call # None /\ call[1].fn = "import_ical"
    /\ Len(call[1].self.events) = 1 /\ Len(call[1].cal) = 2
    /\ whole_event(call[1].cal[1]) /\ span(call[1].cal[1]) = 2
    /\ whole_event(call[1].cal[2]) /\ span(call[1].cal[2]) = 0
    /\ Len(call[1].result.events) = 3


(***************************************************************************)
(* C15                                                                     *)
(***************************************************************************)
\* the number of days of the week of t that categorize classifies as working days
working_days_in_week(schedule, t) ==
    LET monday == floor_week(t) \div (SecondsPerDay * TicksPerSecond)
    IN  Cardinality({d \in monday..(monday + 6) : categorize(schedule, d).value = WORK_DAY})

\* hours_per_week / count(working_days) * (working days of the week), in ticks
working_hours_in_week(schedule, t) ==
    (schedule.hours_per_week[1] * clock_time(1, 0) * working_days_in_week(schedule, t))
        \div Len(schedule.working_days)

\* the sum of work_time over the days of the week of t
RECURSIVE worked_in_week(_, _)
worked_in_week(days, t) ==
    IF days = <<>> THEN 0
    ELSE worked_in_week(Tail(days), t)
         + (IF floor_week(Head(days).date[1]) = floor_week(t) THEN work_time(Head(days), t) ELSE 0)

\* C15: the summary line under the table of a sheet in chronological order
\* sets the time worked in the week of now against hours_per_week /
\* count(working_days) * (the days of that week that categorize classifies as
\* working days), and its message says which of the two is greater.
C15_RequiredHoursScale ==
    (pc = "week_table_done" /\ call[1].result.line # None /\ dates_in_order(work_days)) =>
        LET line == call[1].result.line[1]
            required == working_hours_in_week(call[1].schedule, now[1])
        IN  /\ line.worked = worked_in_week(work_days, now[1])
            /\ line.required = required
            /\ line.message = IF line.worked < required THEN "to go"
                              ELSE IF line.worked > required THEN "overtime"
                              ELSE "on time"


(***************************************************************************)
(* C16                                                                     *)
(***************************************************************************)
\* C16: the report run with a complete configuration on a stamp directory
\* that does not exist loads no stamp and ends without an error.
C16_MissingDirectoryIsEmpty ==
    (call # None /\ call[1].fn = "timesheet" /\ call[1].directory = None
        /\ call[1].cfg.style # None /\ call[1].cfg.schedule_file # None) =>
        /\ call[1].result.raised = ""
        /\ call[1].result.stamps = <<>>
        /\ call[1].result.rc = 0

(***************************************************************************)
(* C19                                                                     *)
(***************************************************************************)
\* a sequence in reverse
reversed(s) == [i \in 1..Len(s) |-> s[Len(s) + 1 - i]]

\* C19: most_recent returns the stored stamp of the greatest timestamp, and
\* None exactly when the directory holds no stamp; the report loads exactly
\* the stored stamps with time >= since and hands them on, reversed, in
\* chronological order.
C19_NewestByNumber ==
    /\ (call # None /\ call[1].fn = "most_recent") =>
        /\ call[1].result.raised = ""
        /\ call[1].result.value = newest(call[1].directory[1])
        /\ call[1].result.value = None <=> DOMAIN call[1].directory[1] = {}
    /\ (call # None /\ call[1].fn = "timesheet" /\ call[1].directory # None) =>
        LET late(st) == st.time >= call[1].args.since
        IN  reversed(call[1].result.stamps)
                = SelectSeq(chronological(call[1].directory[1]), late)


(***************************************************************************)
(* C17                                                                     *)
(***************************************************************************)
\* the place among the yielded days of the day the i-th stamp went into: a day
\* begins with the first stamp, with every IN and after every OUT
day_index(ss, i) ==
    Cardinality({j \in 1..i : j = 1 \/ ss[j].transition = "IN" \/ ss[j - 1].transition = "OUT"})

\* C17: once an input is aggregated, every stamp of it, an IN too, whose time
\* is not strictly greater than that of the stamp before it lies in a yielded
\* WorkDay with invalid_transitions = true.
C17_OrderViolationTaints ==
    pc = "done" =>
        \A i \in 2..Len(stamps) :
            stamps[i].time <= stamps[i - 1].time =>
                work_days[day_index(stamps, i)].invalid_transitions

(***************************************************************************)
(* C18                                                                     *)
(***************************************************************************)
\* C18: when a regular run ends in a PAUSE at p, the day collect yields at the
\* end has now - p added to the pauses completed before, and its work_time at
\* now is p - begin - (the pauses completed before), whatever now is.
C18_OpenPauseCounted ==
    (pc = "done" /\ stamps # <<>> /\ stamps[Len(stamps)].transition = "PAUSE") =>
        LET d == work_days[Len(work_days)]
            p == stamps[Len(stamps)].time
        IN  /\ paused = Some(p)
            /\ consistent(d)
            /\ d.pause_time = pause_sum(stamps) + (now[1] - p)
            /\ work_time(d, now[1]) = p - stamps[1].time - pause_sum(stamps)

\* C18 witness: IN, PAUSE, RESUME, PAUSE has been aggregated two ticks after
\* the last PAUSE, with one pause of one tick completed before
C18_Witness ==
    /\ pc = "done" /\ Len(stamps) = 4 /\ stamps[4].transition = "PAUSE"
    /\ pause_sum(stamps) = 1
    /\ now[1] = stamps[4].time + 2
    /\ work_days[1].pause_time = 3

(***************************************************************************)
(* C20                                                                     *)
(***************************************************************************)
\* C20: every WorkDay collect has yielded is in one of the states ABSENT,
\* WORKING and PAUSING.
C20_StateIsOneOfThree ==
    \A i \in 1..Len(work_days) : work_days[i].state \in {"ABSENT", "WORKING", "PAUSING"}


(***************************************************************************)
(* C21                                                                     *)
(***************************************************************************)
\* the place in the input of the last stamp that went into the i-th day
last_of_day(ss, i) ==
    CHOOSE j \in 1..Len(ss) :
        /\ day_index(ss, j) = i
        /\ \A k \in (j + 1)..Len(ss) : day_index(ss, k) # i

\* C21: a yielded day whose last stamp is an OUT has that OUT's time as end
\* and state ABSENT; a day yielded because an IN arrived while it was open has
\* invalid_transitions = true; so a yielded day with end absent is the last
\* day of a finished run or has invalid_transitions = true, and a yielded day
\* that is complete ends with an OUT at its end.
C21_EmissionStructure ==
    \A i \in 1..Len(work_days) :
        LET d == work_days[i]
            j == last_of_day(stamps, i)
        IN  /\ stamps[j].transition = "OUT" =>
                    d.end = Some(stamps[j].time) /\ d.state = "ABSENT"
            /\ (stamps[j].transition # "OUT" /\ j < Len(stamps)) =>
                    stamps[j + 1].transition = "IN" /\ d.invalid_transitions
            /\ d.end = None =>
                    \/ d.invalid_transitions
                    \/ pc = "done" /\ i = Len(work_days)
            /\ complete(d) =>
                    stamps[j].transition = "OUT" /\ d.end = Some(stamps[j].time)

\* C21 witness: an IN arrived while a day was open, and an OUT closed its day
C21_Witness ==
    /\ pc = "done" /\ Len(work_days) = 2
    /\ work_days[1].end = None /\ work_days[1].invalid_transitions
    /\ complete(work_days[2])


(***************************************************************************)
(* C22                                                                     *)
(***************************************************************************)
\* C22: the assert at the end of collect never fails, the day still open at
\* the end of the input has end absent, and columns raises nothing for a
\* yielded day: a consistent one with end absent is WORKING or PAUSING.
C22_AssertionsHold ==
    /\ pc # "AssertionError"
    /\ day # None => day[1].end = None
    /\ pc = "done" =>
        \A i \in 1..Len(work_days) :
            LET d == work_days[i]
            IN  /\ columns(d, now[1]).raised = ""
                /\ (consistent(d) /\ d.end = None) => d.state \in {"WORKING", "PAUSING"}

\* C22 witness: a run ended with its day open and consistent, which went
\* through the assert of collect, and its row shows the paused state
C22_Witness ==
    /\ pc = "done" /\ day # None /\ Len(work_days) = 1
    /\ consistent(work_days[1]) /\ work_days[1].end = None
    /\ columns(work_days[1], now[1]).cols[3] = cell("paused-state", 0)


(***************************************************************************)
(* C23                                                                     *)
(***************************************************************************)
\* a time after every time the clock can stamp
AfterClock == (MaxSecond + 1) * TicksPerSecond

\* C23: after clock operations without --force on a store that began empty,
\* every WorkDay that collect yields for the stored stamps, taken in
\* chronological order, has begin present and invalid_transitions = false.
C23_GateAndAggregatorAgree ==
    LET days == collect(chronological(store), AfterClock)
    IN  \A i \in 1..Len(days) : days[i].begin # None /\ ~days[i].invalid_transitions


(***************************************************************************)
(* C24                                                                     *)
(***************************************************************************)
\* the non-empty details of the stamps of ss, in order
RECURSIVE details_of(_)
details_of(ss) ==
    IF ss = <<>> THEN <<>>
    ELSE LET before == details_of(SubSeq(ss, 1, Len(ss) - 1))
             last == ss[Len(ss)].details
         IN  IF last # <<>> THEN Append(before, last) ELSE before

\* the tags of the days of a list, one day after the other
RECURSIVE tags_of(_)
tags_of(days) ==
    IF days = <<>> THEN <<>>
    ELSE tags_of(SubSeq(days, 1, Len(days) - 1)) \o days[Len(days)].tags

\* C24: once an input is aggregated, the tags of the yielded WorkDays, one day
\* after the other, are the non-empty details of the input stamps in input
\* order.
C24_TagsConserved ==
    pc = "done" => tags_of(work_days) = details_of(stamps)

\* C24 witness: three stamps with details went into two days, the first
\* closed by an OUT
C24_Witness ==
    /\ pc = "done" /\ Len(work_days) = 2
    /\ work_days[1].tags = << <<"a">>, <<"b">> >>
    /\ work_days[1].end # None
    /\ work_days[2].tags = << <<"a">> >>


(***************************************************************************)
(* C25                                                                     *)
(***************************************************************************)
\* C25: after each stamp collect has processed, paused is set exactly when a
\* day is open and its state is PAUSING; and a day yielded at the end of the
\* input in state PAUSING has the time from its last PAUSE to now in its
\* pause_time.
C25_PausedIffPausing ==
    /\ pc = "loop" => (paused # None <=> (day # None /\ day[1].state = "PAUSING"))
    /\ (pc = "done" /\ day # None /\ day[1].state = "PAUSING") =>
            \E j \in 1..Len(stamps) :
                /\ stamps[j].transition = "PAUSE"
                /\ \A k \in (j + 1)..Len(stamps) : stamps[k].transition # "PAUSE"
                /\ work_days[Len(work_days)].pause_time
                       = day[1].pause_time + (now[1] - stamps[j].time)


(***************************************************************************)
(* C26                                                                     *)
(***************************************************************************)
\* C26: categorize raises nothing and returns a Category, for every day and
\* every list of events, recurring events of a 29th of February included.
C26_CategorizeIsTotal ==
    (call # None /\ call[1].fn = "categorize") =>
        /\ call[1].result.raised = ""
        /\ call[1].result.value \in {WORK_DAY, VACATION, SICK, HOLIDAY, WEEKEND}

====
